---- MODULE Spec2Model ----
(***************************************************************************)
(* MCI Simulation Dashboard (dashboard.py): the normalizer                 *)
(* auto_clean_raw_to_csv, the cached loader load_data, and the page script *)
(* (severity checkboxes, filter, placeholder, peak and KPI aggregates).    *)
(*                                                                         *)
(* Numbers.  A pandas float is modelled in fixed point: the record         *)
(* [nan, v] holds v hundredths (6.75 is v = 675, 1906.0 is v = 190600),    *)
(* and NaN is [nan |-> TRUE].  Values that went through astype(int) are    *)
(* plain integers.  CSV cells are text.                                    *)
(***************************************************************************)
EXTENDS Integers, Sequences, FiniteSets, TLC

VARIABLES
    raw,      \* the raw source file at RAW_PATH
    clean,    \* the canonical file at CLEAN_PATH
    cache,    \* the st.cache_data entry of load_data
    df,       \* the dataset of the last load
    err,      \* the exception of the last operation, if it raised
    op,       \* the last operation
    ss,       \* the session's widget state
    f,        \* the frame f of the last page run (filtered rows or placeholder)
    view,     \* what the last page run showed
    run       \* what the last page run did at startup

vars == <<raw, clean, cache, df, err, op, ss, f, view, run>>

-----------------------------------------------------------------------------
(* Text: str.strip, str.lower, substring test.                             *)

Ch(s, i) == SubSeq(s, i, i)

UpperCase == "ABCDEFGHIJKLMNOPQRSTUVWXYZ"
LowerCase == "abcdefghijklmnopqrstuvwxyz"
DigitChars == "0123456789"

InStr(c, s) == \E i \in 1..Len(s) : Ch(s, i) = c

RECURSIVE PosFrom(_, _, _)
PosFrom(c, s, i) == IF i > Len(s) THEN 0 ELSE IF Ch(s, i) = c THEN i ELSE PosFrom(c, s, i + 1)

(* The position of the first c in s, 0 when there is none.                 *)
PosIn(c, s) == PosFrom(c, s, 1)

(* A list comprehension builds its list once.                              *)
List(s) == s \o <<>>

LowerOf == [c \in {Ch(UpperCase, i) : i \in 1..Len(UpperCase)} |-> Ch(LowerCase, PosIn(c, UpperCase))]
DigitOf == [c \in {Ch(DigitChars, i) : i \in 1..Len(DigitChars)} |-> PosIn(c, DigitChars) - 1]

RECURSIVE LStrip(_)
LStrip(s) == IF Len(s) > 0 /\ Ch(s, 1) = " " THEN LStrip(SubSeq(s, 2, Len(s))) ELSE s

RECURSIVE RStrip(_)
RStrip(s) == IF Len(s) > 0 /\ Ch(s, Len(s)) = " " THEN RStrip(SubSeq(s, 1, Len(s) - 1)) ELSE s

Strip(s) == RStrip(LStrip(s))

LowerChar(c) == IF c \in DOMAIN LowerOf THEN LowerOf[c] ELSE c

RECURSIVE LowerFrom(_, _)
LowerFrom(s, i) == IF i > Len(s) THEN "" ELSE LowerChar(Ch(s, i)) \o LowerFrom(s, i + 1)

Lower(s) == LowerFrom(s, 1)

Contains(sub, s) == \E i \in 1..(Len(s) - Len(sub) + 1) : SubSeq(s, i, i + Len(sub) - 1) = sub

-----------------------------------------------------------------------------
(* Numbers: pd.to_numeric(errors="coerce"), fillna, astype(int), to_csv.   *)

NaN == [nan |-> TRUE, v |-> 0]
Num(h) == [nan |-> FALSE, v |-> h]
I(n) == Num(n * 100)

IsDigits(s) == Len(s) > 0 /\ \A i \in 1..Len(s) : Ch(s, i) \in DOMAIN DigitOf

RECURSIVE DigitsValue(_)
DigitsValue(s) ==
    IF Len(s) = 0 THEN 0
    ELSE DigitsValue(SubSeq(s, 1, Len(s) - 1)) * 10 + DigitOf[Ch(s, Len(s))]

(* An unsigned decimal literal with at most two decimals; anything else is *)
(* not convertible.                                                        *)
ParseUnsigned(s) ==
    LET Value(whole, frac, w, fr) ==
            IF IsDigits(whole) /\ (frac = "" \/ (IsDigits(frac) /\ Len(frac) <= 2))
            THEN Num(w * 100 + (IF Len(frac) = 1 THEN fr * 10 ELSE fr))
            ELSE NaN
        Parts(whole, frac) == Value(whole, frac, DigitsValue(whole), DigitsValue(frac))
        Split(p) == IF p = 0 THEN Parts(s, "")
                    ELSE IF p = Len(s) THEN NaN
                    ELSE Parts(SubSeq(s, 1, p - 1), SubSeq(s, p + 1, Len(s)))
    IN  Split(PosIn(".", s))

ToNumeric(s) ==
    LET neg == Len(s) > 0 /\ Ch(s, 1) = "-"
        Signed(u) == IF u.nan THEN NaN ELSE IF neg THEN Num(0 - u.v) ELSE u
    IN  Signed(ParseUnsigned(IF neg THEN SubSeq(s, 2, Len(s)) ELSE s))

FillNa(x, n) == IF x.nan THEN I(n) ELSE x

(* astype(int) of a float without NaN: truncation toward zero.             *)
AsInt(x) == IF x.v >= 0 THEN x.v \div 100 ELSE 0 - ((0 - x.v) \div 100)

RECURSIVE NatToStr(_)
NatToStr(n) ==
    IF n < 10 THEN Ch(DigitChars, n + 1)
    ELSE NatToStr(n \div 10) \o Ch(DigitChars, (n % 10) + 1)

IntToStr(n) == IF n < 0 THEN "-" \o NatToStr(0 - n) ELSE NatToStr(n)

(* repr of a float: 1906.0, 6.7, 6.75, -122.45; NaN is the empty cell.     *)
FloatToStr(x) ==
    IF x.nan THEN ""
    ELSE LET a == IF x.v < 0 THEN 0 - x.v ELSE x.v
             fr == a % 100
         IN  (IF x.v < 0 THEN "-" ELSE "") \o NatToStr(a \div 100) \o "."
             \o (IF fr % 10 = 0 THEN NatToStr(fr \div 10)
                 ELSE IF fr < 10 THEN "0" \o NatToStr(fr) ELSE NatToStr(fr))

Pad(n, w) == LET s == NatToStr(n) IN SubSeq("0000", 1, w - Len(s)) \o s

-----------------------------------------------------------------------------
(* Dates: pd.to_datetime(dict(year, month, day), errors="coerce").         *)

NaT == [nat |-> TRUE, y |-> 0, m |-> 0, d |-> 0]

IsLeap(y) == (y % 4 = 0 /\ y % 100 # 0) \/ y % 400 = 0

DaysInMonth(y, m) ==
    IF m = 2 THEN (IF IsLeap(y) THEN 29 ELSE 28)
    ELSE IF m \in {4, 6, 9, 11} THEN 30 ELSE 31

DateKey(dt) == dt.y * 10000 + dt.m * 100 + dt.d

(* A calendar date inside the range of a nanosecond Timestamp              *)
(* (1677-09-21 .. 2262-04-11); everything else is NaT.                     *)
ValidYMD(y, m, d) ==
    /\ m \in 1..12
    /\ d >= 1 /\ d <= DaysInMonth(y, m)
    /\ y * 10000 + m * 100 + d >= 16770921
    /\ y * 10000 + m * 100 + d <= 22620411

ToDatetime(year, month, day) ==
    IF year.nan \/ year.v % 100 # 0 THEN NaT
    ELSE IF ValidYMD(year.v \div 100, month, day)
         THEN [nat |-> FALSE, y |-> year.v \div 100, m |-> month, d |-> day]
         ELSE NaT

DateToStr(dt) == IF dt.nat THEN "" ELSE Pad(dt.y, 4) \o "-" \o Pad(dt.m, 2) \o "-" \o Pad(dt.d, 2)

(* pd.to_datetime of a text cell "YYYY-MM-DD".                             *)
ParseDate(s) ==
    IF /\ Len(s) = 10 /\ Ch(s, 5) = "-" /\ Ch(s, 8) = "-"
       /\ IsDigits(SubSeq(s, 1, 4)) /\ IsDigits(SubSeq(s, 6, 7)) /\ IsDigits(SubSeq(s, 9, 10))
    THEN ToDatetime(I(DigitsValue(SubSeq(s, 1, 4))), DigitsValue(SubSeq(s, 6, 7)),
                    DigitsValue(SubSeq(s, 9, 10)))
    ELSE NaT

-----------------------------------------------------------------------------
(* Exceptions: the type raised and, for the schema error, the columns the  *)
(* message names.                                                          *)

NoError == [type |-> "", missing |-> <<>>]
Raise(type) == [type |-> type, missing |-> <<>>]
RaiseMissing(missing) == [type |-> "ValueError", missing |-> missing]

-----------------------------------------------------------------------------
(* Tables: a CSV file or DataFrame is a header and rows of text cells.     *)

NoFile == [exists |-> FALSE, cols |-> <<>>, rows |-> <<>>]
File(cols, rows) == [exists |-> TRUE, cols |-> cols, rows |-> rows]

HasCol(cols, c) == \E i \in 1..Len(cols) : cols[i] = c
ColIndex(cols, c) == CHOOSE i \in 1..Len(cols) : cols[i] = c /\ \A j \in 1..(i - 1) : cols[j] # c
Cell(cols, row, c) == row[ColIndex(cols, c)]

(* astype(str): a missing cell reads "nan".                                *)
AsStr(cell) == IF cell = "" THEN "nan" ELSE cell

IsIntLiteral(s) == IsDigits(s) \/ (Len(s) > 1 /\ Ch(s, 1) = "-" /\ IsDigits(SubSeq(s, 2, Len(s))))

-----------------------------------------------------------------------------
(* auto_clean_raw_to_csv                                                   *)

StripCols(cols) == List([i \in 1..Len(cols) |-> Strip(cols[i])])

TsunamiCandidates(cols) == SelectSeq(cols, LAMBDA c : Contains("tsunami", Lower(c)))

RenameTsunami(cols) ==
    LET cand == TsunamiCandidates(cols)
    IN  IF cand # <<>>
        THEN List([i \in 1..Len(cols) |-> IF cols[i] = cand[1] THEN "tsunami_flag" ELSE cols[i]])
        ELSE cols

RenameMap(c) ==
    CASE c = "Id" -> "event_id"
      [] c = "Year" -> "year"
      [] c = "Month" -> "month"
      [] c = "Date" -> "day"
      [] c = "Name" -> "location_name"
      [] c = "Latitude" -> "latitude"
      [] c = "Longitude" -> "longitude"
      [] c = "Focal Depth (km)" -> "depth_km"
      [] c = "Magnitude" -> "magnitude"
      [] c = "Deaths" -> "deaths"
      [] c = "Injuries" -> "injuries"
      [] OTHER -> c

RenameCols(cols) == List([i \in 1..Len(cols) |-> RenameMap(cols[i])])

CanonCols(cols) == RenameCols(RenameTsunami(StripCols(cols)))

Required == <<"year", "month", "day", "latitude", "longitude", "depth_km", "magnitude",
              "deaths", "injuries">>

MissingFirst(cols) ==
    LET m == SelectSeq(Required, LAMBDA c : ~HasCol(cols, c))
    IN  IF m = <<>> THEN m ELSE <<m[1]>>

Missing(cols) == SelectSeq(Required, LAMBDA c : ~HasCol(cols, c))

Truthy == {"y", "yes", "true", "1", "t"}
Falsy == {"n", "no", "false", "0", "f", "nan", "none", ""}

(* .replace({...}) then pd.to_numeric(errors="coerce"): a listed token     *)
(* becomes 1 or 0, any other text is parsed as a number.                   *)
ReplaceTokens(s) == IF s \in Truthy THEN I(1) ELSE IF s \in Falsy THEN I(0) ELSE ToNumeric(s)

TsunamiFlagOf(cell) == AsInt(FillNa(ReplaceTokens(Lower(Strip(AsStr(cell)))), 0))

TotalDeathsOnly(deaths, injuries) == deaths
TotalOf(deaths, injuries) == deaths + injuries

(* Lines 192-217 on one row: the typed row of the DataFrame.               *)
CoerceRow(cols, row) ==
    LET Typed(num) ==
            LET month == AsInt(FillNa(num["month"], 1))
                day == AsInt(FillNa(num["day"], 1))
                deaths == AsInt(FillNa(num["deaths"], 0))
                injuries == AsInt(FillNa(num["injuries"], 0))
            IN  [event_id |-> IF HasCol(cols, "event_id") THEN Cell(cols, row, "event_id")
                              ELSE "",
                 date |-> ToDatetime(num["year"], month, day),
                 year |-> num["year"],
                 location_name |-> Strip(AsStr(Cell(cols, row, "location_name"))),
                 latitude |-> num["latitude"],
                 longitude |-> num["longitude"],
                 magnitude |-> num["magnitude"],
                 depth_km |-> num["depth_km"],
                 deaths |-> deaths,
                 injuries |-> injuries,
                 total_casualties |-> TotalOf(deaths, injuries),
                 tsunami_flag |-> IF HasCol(cols, "tsunami_flag")
                                  THEN TsunamiFlagOf(Cell(cols, row, "tsunami_flag")) ELSE 0]
    IN  Typed([c \in {Required[i] : i \in 1..Len(Required)} |-> ToNumeric(Cell(cols, row, c))])

(* dropna(subset=[date, year, latitude, longitude, magnitude, depth_km])   *)
KeepAll(r) == TRUE
Complete(r) ==
    /\ ~r.date.nat /\ ~r.year.nan /\ ~r.latitude.nan /\ ~r.longitude.nan
    /\ ~r.magnitude.nan /\ ~r.depth_km.nan

FinalCols == <<"event_id", "date", "year", "location_name", "latitude", "longitude",
               "magnitude", "depth_km", "deaths", "injuries", "total_casualties",
               "tsunami_flag">>

Created == {"date", "location_name", "total_casualties"}

OutCols(cols) == SelectSeq(FinalCols, LAMBDA c : c \in Created \/ HasCol(cols, c))

(* A numeric column is int64 when every cell is an integer literal, and    *)
(* float64 otherwise; to_csv writes 1906 for the one and 1906.0 for the    *)
(* other.                                                                  *)
IntColumn(cols, rows, c) == \A k \in 1..Len(rows) : IsIntLiteral(Cell(cols, rows[k], c))

NumToStr(x, isInt) == IF isInt THEN IntToStr(AsInt(x)) ELSE FloatToStr(x)

CsvCell(c, r, isInt) ==
    CASE c = "event_id" -> r.event_id
      [] c = "date" -> DateToStr(r.date)
      [] c = "year" -> NumToStr(r.year, isInt)
      [] c = "location_name" -> r.location_name
      [] c = "latitude" -> NumToStr(r.latitude, isInt)
      [] c = "longitude" -> NumToStr(r.longitude, isInt)
      [] c = "magnitude" -> NumToStr(r.magnitude, isInt)
      [] c = "depth_km" -> NumToStr(r.depth_km, isInt)
      [] c = "deaths" -> IntToStr(r.deaths)
      [] c = "injuries" -> IntToStr(r.injuries)
      [] c = "total_casualties" -> IntToStr(r.total_casualties)
      [] c = "tsunami_flag" -> IntToStr(r.tsunami_flag)

(* sort_values("date"): the rows in ascending date order; rows of equal    *)
(* date in any order (the default sort is not stable).                     *)
Orders(n) == {p \in [1..n -> 1..n] : \A i, j \in 1..n : i # j => p[i] # p[j]}

SortedByDate(rows) ==
    {List([i \in 1..Len(rows) |-> rows[p[i]]]) : p \in
        {q \in Orders(Len(rows)) :
            \A i \in 1..(Len(rows) - 1) : DateKey(rows[q[i]].date) <= DateKey(rows[q[i + 1]].date)}}

(* The outcome of auto_clean_raw_to_csv(raw): the exception raised (the    *)
(* missing file, the missing required columns, "Unknown".astype when the   *)
(* source has no Name column), or the files it may write.                  *)
AutoCleanOutcome(rawFile) ==
    LET Written(cols, out, isInt, sorted) ==
            {File(out, List([k \in 1..Len(s) |->
                        List([i \in 1..Len(out) |-> CsvCell(out[i], s[k], isInt[i])])]))
             : s \in sorted}
        Cleaned(cols, out) ==
            Written(cols, out,
                    List([i \in 1..Len(out) |->
                            /\ out[i] \in {"year", "latitude", "longitude", "magnitude", "depth_km"}
                            /\ IntColumn(cols, rawFile.rows, out[i])]),
                    SortedByDate(SelectSeq(
                        List([k \in 1..Len(rawFile.rows) |-> CoerceRow(cols, rawFile.rows[k])]),
                        Complete)))
        Validated(cols, missing) ==
            IF missing # <<>>
            THEN [err |-> RaiseMissing(missing), files |-> {}]
            ELSE IF ~HasCol(cols, "location_name")
            THEN [err |-> Raise("AttributeError"), files |-> {}]
            ELSE [err |-> NoError, files |-> Cleaned(cols, OutCols(cols))]
        Renamed(cols) == Validated(cols, Missing(cols))
    IN  IF ~rawFile.exists
        THEN [err |-> Raise("FileNotFoundError"), files |-> {}]
        ELSE Renamed(CanonCols(rawFile.cols))

-----------------------------------------------------------------------------
(* load_data                                                               *)

NoFrame == [loaded |-> FALSE, cols |-> <<>>, rows |-> <<>>]
Frame(cols, rows) == [loaded |-> TRUE, cols |-> cols, rows |-> rows]

(* Lines 233-239 and 244-245 on row k of the file (index label k - 1).     *)
LoadRow(cols, row, k) ==
    LET Typed(txt, num) ==
            [idx |-> k - 1,
             event_id |-> txt["event_id"],
             date |-> ParseDate(txt["date"]),
             year |-> num["year"],
             location_name |-> txt["location_name"],
             latitude |-> num["latitude"],
             longitude |-> num["longitude"],
             magnitude |-> num["magnitude"],
             depth_km |-> num["depth_km"],
             deaths |-> num["deaths"],
             injuries |-> num["injuries"],
             total_casualties |-> num["total_casualties"],
             tsunami_flag |-> IF HasCol(cols, "tsunami_flag") THEN AsInt(FillNa(num["tsunami_flag"], 0))
                              ELSE 0,
             severity |-> ""]
        Read(txt) == Typed(txt, [c \in DOMAIN txt |-> ToNumeric(txt[c])])
    IN  Read([c \in {FinalCols[i] : i \in 1..Len(FinalCols)} |->
                IF HasCol(cols, c) THEN Cell(cols, row, c) ELSE ""])

(* load_data(clean_path) on an existing file: rows that fail the validity  *)
(* gate are dropped again, year becomes an integer.                        *)
LoadData(file) ==
    LET Kept(kept) ==
            Frame(file.cols,
                  List([k \in 1..Len(kept) |-> [kept[k] EXCEPT !.year = AsInt(kept[k].year)]]))
    IN  Kept(SelectSeq(List([k \in 1..Len(file.rows) |-> LoadRow(file.cols, file.rows[k], k)]),
                       Complete))

-----------------------------------------------------------------------------
(* The page script: severity, widgets, filter, placeholder, aggregates.    *)

Options == <<"Minor", "Moderate", "Severe">>

(* x >= n for a float x and an integer n; false for NaN.                   *)
Ge(x, n) == ~x.nan /\ x.v >= n * 100

ClassifyLoose(total) ==
    IF Ge(total, 1001) THEN "Severe" ELSE IF Ge(total, 100) THEN "Moderate" ELSE "Minor"

ClassifySeverity(total) ==
    IF Ge(total, 1000) THEN "Severe" ELSE IF Ge(total, 100) THEN "Moderate" ELSE "Minor"

(* df["severity"] = df["total_casualties"].apply(classify_severity)        *)
AddSeverity(d) ==
    Frame(d.cols \o <<"severity">>,
          List([k \in 1..Len(d.rows) |->
                  [d.rows[k] EXCEPT !.severity = ClassifySeverity(d.rows[k].total_casualties)]]))

(* Widget state of the session: the three checkbox keys of                 *)
(* st.session_state and the values of the other widgets.  year_args and    *)
(* type_args are the arguments the year slider and the category selectbox  *)
(* were last built with: a widget built with other arguments is a new      *)
(* widget and starts from its default.                                     *)
InitSession ==
    [Minor |-> TRUE, Moderate |-> TRUE, Severe |-> TRUE,
     magnitude |-> 650,
     year_range |-> <<0, 0>>, year_args |-> <<0, 0>>,
     event_type |-> "All earthquakes", type_args |-> FALSE,
     only_with_casualties |-> TRUE,
     metric |-> "total_casualties"]

Checked(st) == {o \in {Options[i] : i \in 1..Len(Options)} : st[o]}

NoEnforce(st, selected_opt) == st

(* enforce_one: the on_change callback of a checkbox.                      *)
EnforceOne(st, selected_opt) ==
    IF Checked(st) = {} THEN [st EXCEPT ![selected_opt] = TRUE] ELSE st

SeverityFilter(st) == SelectSeq(Options, LAMBDA o : st[o])

MagWindow == 25

InList(x, s) == \E i \in 1..Len(s) : s[i] = x

BetweenOpen(x, lo, hi) == ~x.nan /\ x.v > lo /\ x.v < hi

(* Series.between(lo, hi): inclusive at both ends.                         *)
Between(x, lo, hi) == ~x.nan /\ x.v >= lo /\ x.v <= hi

EventTypes(has_tsunami) ==
    IF has_tsunami THEN <<"All earthquakes", "Earthquake only", "Earthquake + Tsunami">>
    ELSE <<"All earthquakes", "Earthquake only">>

(* Lines 332-345: the rows of the dataset that pass the filter.            *)
FilterRows(rows, st, year_range, event_type, has_tsunami) ==
    LET severity_filter == SeverityFilter(st)
        f1 == SelectSeq(rows, LAMBDA r :
                 /\ r.year >= year_range[1] /\ r.year <= year_range[2]
                 /\ Between(r.magnitude, st.magnitude - MagWindow, st.magnitude + MagWindow)
                 /\ InList(r.severity, severity_filter))
        f2 == IF st.only_with_casualties
              THEN SelectSeq(f1, LAMBDA r : ~r.total_casualties.nan /\ r.total_casualties.v > 0)
              ELSE f1
    IN  IF has_tsunami
        THEN IF Contains("only", Lower(event_type))
             THEN SelectSeq(f2, LAMBDA r : r.tsunami_flag = 0)
             ELSE IF Contains("tsunami", Lower(event_type))
                  THEN SelectSeq(f2, LAMBDA r : r.tsunami_flag = 1)
                  ELSE f2
        ELSE f2

PlaceholderCols(has_tsunami) ==
    <<"year", "latitude", "longitude", "magnitude", "depth_km", "deaths", "injuries",
      "total_casualties", "severity", "location_name">>
    \o (IF has_tsunami THEN <<"tsunami_flag">> ELSE <<>>)

(* Lines 353-366: the zero-valued record shown when nothing matches; the   *)
(* columns it does not have (date, event_id) are missing.                  *)
PlaceholderRow(st, year_range) ==
    [idx |-> 0, event_id |-> "", date |-> NaT, year |-> year_range[1],
     location_name |-> "No data", latitude |-> I(0), longitude |-> I(0),
     magnitude |-> Num(st.magnitude), depth_km |-> I(0), deaths |-> I(0), injuries |-> I(0),
     total_casualties |-> I(0), tsunami_flag |-> 0, severity |-> "Minor"]

SevLabel(st) ==
    IF Cardinality(Checked(st)) > 1 THEN "MIXED"
    ELSE IF "Severe" \in Checked(st) THEN "SEVERE"
    ELSE IF "Moderate" \in Checked(st) THEN "MODERATE"
    ELSE "LOW"

(* Series.max() and Series.sum() skip NaN.                                 *)
Maximum(S) == CHOOSE x \in S : \A y \in S : y <= x
Values(rows, metric) == {rows[k][metric].v : k \in {j \in 1..Len(rows) : ~rows[j][metric].nan}}

RECURSIVE SumFrom(_, _, _)
SumFrom(rows, metric, k) ==
    IF k > Len(rows) THEN 0
    ELSE (IF rows[k][metric].nan THEN 0 ELSE rows[k][metric].v) + SumFrom(rows, metric, k + 1)

(* int(f[metric].sum())                                                    *)
IntSum(rows, metric) == AsInt(Num(SumFrom(rows, metric, 1)))

IdxMaxLast(rows, metric) ==
    LET m == Maximum(Values(rows, metric))
        k == CHOOSE j \in 1..Len(rows) :
                /\ ~rows[j][metric].nan /\ rows[j][metric].v = m
                /\ \A i \in (j + 1)..Len(rows) : rows[i][metric].nan \/ rows[i][metric].v # m
    IN  rows[k].idx

(* Series.idxmax(): the index label of the first row holding the maximum.  *)
IdxMax(rows, metric) ==
    LET m == Maximum(Values(rows, metric))
        k == CHOOSE j \in 1..Len(rows) :
                /\ ~rows[j][metric].nan /\ rows[j][metric].v = m
                /\ \A i \in 1..(j - 1) : rows[i][metric].nan \/ rows[i][metric].v # m
    IN  rows[k].idx

(* f.loc[label]: index labels are unique.                                  *)
Loc(rows, label) == rows[CHOOSE k \in 1..Len(rows) : rows[k].idx = label]

MinYear(rows) == CHOOSE y \in {rows[k].year : k \in 1..Len(rows)} : \A k \in 1..Len(rows) : y <= rows[k].year
MaxYear(rows) == CHOOSE y \in {rows[k].year : k \in 1..Len(rows)} : \A k \in 1..Len(rows) : y >= rows[k].year

NoView ==
    [widgets |-> "none", severity_filter |-> <<>>, has_tsunami |-> FALSE, placeholder |-> FALSE,
     sev_label |-> "", peak |-> PlaceholderRow(InitSession, <<0, 0>>), has_peak |-> FALSE,
     total_casualties |-> 0, deaths |-> 0, injuries |-> 0, count |-> 0,
     export |-> FALSE, exported |-> <<>>]

(* What a run did before the widgets: whether the on_change callback       *)
(* re-selected the checkbox, whether the normalizer was invoked, whether   *)
(* the cache clear discarded an entry, whether load_data hit the cache.    *)
NoRun == [reverted |-> FALSE, normalized |-> FALSE, dropped |-> FALSE, hit |-> FALSE]

ExportNonEmpty(f_cols, f_rows) == f_rows # <<>>

(* Lines 515-530: the table and the download button are shown unless f is  *)
(* empty or has no date column.                                            *)
ExportOffered(f_cols, f_rows) == ~(f_rows = <<>> \/ ~HasCol(f_cols, "date"))

(* Lines 284-530 on the loaded dataset d and the session st: the session   *)
(* after the widgets were built, the frame f, what the page shows, and the *)
(* exception if the script stopped.                                        *)
Page(d, st) ==
    LET Show(st1, has_tsunami, empty, f_cols, f_rows, export) ==
            [err |-> NoError, st |-> st1, f |-> Frame(f_cols, f_rows),
             view |-> [widgets |-> "all",
                       severity_filter |-> SeverityFilter(st1),
                       has_tsunami |-> has_tsunami,
                       placeholder |-> empty,
                       sev_label |-> SevLabel(st1),
                       peak |-> Loc(f_rows, IdxMax(f_rows, st1.metric)),
                       has_peak |-> TRUE,
                       total_casualties |-> IntSum(f_rows, "total_casualties"),
                       deaths |-> IntSum(f_rows, "deaths"),
                       injuries |-> IntSum(f_rows, "injuries"),
                       count |-> Len(f_rows),
                       export |-> export,
                       exported |-> IF export THEN f_rows ELSE <<>>]]
        Framed(st1, has_tsunami, empty, f_cols, f_rows) ==
            Show(st1, has_tsunami, empty, f_cols, f_rows, ExportOffered(f_cols, f_rows))
        Filtered(st1, has_tsunami, cols, matched) ==
            IF matched = <<>>
            THEN Framed(st1, has_tsunami, TRUE, PlaceholderCols(has_tsunami),
                        <<PlaceholderRow(st1, st1.year_range)>>)
            ELSE Framed(st1, has_tsunami, FALSE, cols, matched)
        Built(sev, st1, has_tsunami) ==
            Filtered(st1, has_tsunami, sev.cols,
                     FilterRows(sev.rows, st1, st1.year_range, st1.event_type, has_tsunami))
        Widgets(sev, mn, mx, has_tsunami) ==
            IF ~(mn <= 1900 /\ 1900 <= mx)
            THEN [err |-> Raise("StreamlitAPIException"), st |-> st, f |-> NoFrame,
                  view |-> [NoView EXCEPT !.widgets = "magnitude"]]
            ELSE Built(sev,
                       [st EXCEPT !.year_range = IF st.year_args = <<mn, mx>> THEN st.year_range
                                                 ELSE <<1900, mx>>,
                                  !.year_args = <<mn, mx>>,
                                  !.event_type = IF st.type_args = has_tsunami THEN st.event_type
                                                 ELSE "All earthquakes",
                                  !.type_args = has_tsunami],
                       has_tsunami)
        Classified(sev) ==
            IF sev.rows = <<>>
            THEN [err |-> Raise("ValueError"), st |-> st, f |-> NoFrame,
                  view |-> [NoView EXCEPT !.widgets = "magnitude"]]
            ELSE Widgets(sev, MinYear(sev.rows), MaxYear(sev.rows),
                         HasCol(sev.cols, "tsunami_flag"))
    IN  Classified(AddSeverity(d))

-----------------------------------------------------------------------------
(* Raw source files.                                                       *)

MaxRows == 3
MaxMissing == 2

FullHeader == <<"Id", "Year", "Month", "Date", "Name", "Latitude", "Longitude",
                "Focal Depth (km)", "Magnitude", "Deaths", "Injuries">>

TsunamiHeader == <<"Id", "Year", "Month", "Date", "Name", "Latitude", "Longitude",
                   "Focal Depth (km)", "Magnitude", "Deaths", "Injuries", "Flag Tsunami ",
                   "Tsunami Deaths">>

SourceNames == {"Year", "Month", "Date", "Latitude", "Longitude", "Focal Depth (km)",
                "Magnitude", "Deaths", "Injuries", "Name"}

Headers ==
    {SelectSeq(FullHeader, LAMBDA c : c \notin S) :
        S \in {T \in SUBSET SourceNames : Cardinality(T) >= 1 /\ Cardinality(T) <= MaxMissing}}
    \cup {<<"Id", "year", " Month", "Date", "Name", "Latitude", "Longitude", "Focal Depth (km)",
            "Magnitude", "Deaths", "Injuries">>,
          <<"YEAR", "Month", "Date", "Name", "Latitude", "Longitude", "Focal Depth (km)",
            "Magnitude", "Deaths", "Injuries", "TSUNAMI">>}

(* The record of spec section 8: San Francisco, 1906.                      *)
Base == [year |-> "1906", month |-> "4", day |-> "18", location_name |-> " SAN FRANCISCO",
         latitude |-> "37.75", longitude |-> "-122.45", depth_km |-> "8", magnitude |-> "7.9",
         deaths |-> "3000", injuries |-> "0", tsunami_flag |-> "Y"]

BadFieldRows ==
    {[Base EXCEPT ![c] = "abc"] : c \in {"year", "latitude", "longitude", "depth_km", "magnitude"}}
    \cup {[Base EXCEPT ![c] = ""] : c \in {"year", "magnitude"}}

DateRows ==
    {[Base EXCEPT !.year = t[1], !.month = t[2], !.day = t[3]] :
        t \in {<<"1904", "2", "29">>, <<"1906", "2", "29">>, <<"1906", "13", "1">>,
               <<"1890", "", "x">>, <<"1500", "1", "1">>, <<"1906", "4", "31">>}}

CasualtyRows ==
    {[Base EXCEPT !.deaths = t[1], !.injuries = t[2]] :
        t \in {<<"999", "1">>, <<"999", "0">>, <<"60", "40">>, <<"", "">>, <<"99", "0">>,
               <<"x", "5">>}}

TsunamiTokens == {"y", "yes", "true", "1", "t", "n", "no", "false", "0", "f", "", "none",
                  "Y", " Yes ", "TRUE", "T", "No", "F", "None", "2", "maybe", "Tsu"}

TokenRows == {[Base EXCEPT !.tsunami_flag = t] : t \in TsunamiTokens}

FirstRows == BadFieldRows \cup DateRows \cup CasualtyRows \cup TokenRows

MoreRows ==
    {[Base EXCEPT !.year = "1890.0", !.month = "", !.magnitude = "6.7", !.deaths = "5",
                  !.injuries = "95", !.tsunami_flag = "2"],
     [Base EXCEPT !.month = "13", !.tsunami_flag = "1"]}

RowSeqs ==
    {<<>>} \cup
    UNION {{<<a>> \o t : a \in FirstRows, t \in [1..n -> MoreRows]} : n \in 0..(MaxRows - 1)}

(* The text row of a record under a header; Id is the row's position.      *)
RawRow(canon, rec, k) ==
    List([i \in 1..Len(canon) |->
            IF canon[i] = "event_id" THEN NatToStr(k)
            ELSE IF canon[i] \in DOMAIN rec THEN rec[canon[i]] ELSE "7"])

RawFile(header, recs) ==
    LET canon == CanonCols(header)
    IN  File(header, List([k \in 1..Len(recs) |-> RawRow(canon, recs[k], k)]))

RawFiles ==
    {NoFile}
    \cup {RawFile(h, <<Base>>) : h \in Headers}
    \cup {RawFile(TsunamiHeader, recs) : recs \in RowSeqs}
    \cup {RawFile(FullHeader, <<a, b>>) : a \in DateRows, b \in MoreRows}

-----------------------------------------------------------------------------
(* The normalizer and the loader called directly.                          *)

(* A canonical file left by an earlier cold start.                         *)
PriorClean == CHOOSE file \in AutoCleanOutcome(RawFile(FullHeader, <<Base>>)).files : TRUE

InitClean ==
    /\ raw \in RawFiles
    /\ clean \in {NoFile, PriorClean}
    /\ cache = NoFrame
    /\ df = NoFrame
    /\ err = NoError
    /\ op = "start"
    /\ ss = InitSession /\ f = NoFrame /\ view = NoView /\ run = NoRun

(* auto_clean_raw_to_csv(RAW_PATH, CLEAN_PATH)                             *)
CleanRaw ==
    LET o == AutoCleanOutcome(raw)
    IN  /\ err' = o.err
        /\ IF o.err = NoError THEN clean' \in o.files ELSE clean' = clean
        /\ op' = "auto_clean_raw_to_csv"
        /\ UNCHANGED <<raw, cache, df, ss, f, view, run>>

(* load_data.__wrapped__(CLEAN_PATH): the loader without the cache.        *)
LoadClean ==
    /\ clean.exists
    /\ df' = LoadData(clean)
    /\ err' = NoError
    /\ op' = "load_data"
    /\ UNCHANGED <<raw, clean, cache, ss, f, view, run>>

(* Line 284 on the loaded dataset.                                         *)
Classify ==
    /\ op = "load_data"
    /\ df' = AddSeverity(df)
    /\ op' = "classify_severity"
    /\ UNCHANGED <<raw, clean, cache, err, ss, f, view, run>>

NextClean == CleanRaw \/ LoadClean \/ Classify

SpecClean == InitClean /\ [][NextClean]_vars

-----------------------------------------------------------------------------
(* Page runs.  Every interaction reruns the whole script (lines 249-530).  *)

FileA ==
    RawFile(TsunamiHeader,
        <<[Base EXCEPT !.year = "1950", !.month = "6", !.magnitude = "6.5", !.deaths = "3000",
                       !.injuries = "5", !.tsunami_flag = "2"],
          [Base EXCEPT !.magnitude = "6.7", !.tsunami_flag = "no"],
          [Base EXCEPT !.year = "1890", !.month = "", !.day = "", !.magnitude = "6.25",
                       !.deaths = "5", !.injuries = "95"],
          [Base EXCEPT !.year = "1950", !.magnitude = "6.75", !.deaths = "0", !.tsunami_flag = ""]>>)

FileB ==
    RawFile(FullHeader,
        <<[Base EXCEPT !.year = "2000", !.magnitude = "6.5", !.deaths = "0", !.injuries = "200"],
          [Base EXCEPT !.year = "1900", !.magnitude = "7.0", !.deaths = "10"]>>)

(* No valid row: the canonical dataset is empty.                           *)
FileD == RawFile(FullHeader, <<[Base EXCEPT !.magnitude = "abc"]>>)

PageRawFiles == {NoFile, FileA, FileB, FileD}

Magnitudes == {650, 700}
Metrics == {"total_casualties", "deaths", "injuries"}

KeepCache(c) == c

(* st.cache_data.clear()                                                   *)
ClearCache(c) == NoFrame

(* Lines 255-530 with the canonical file in place.                         *)
Render(file, cached, st, reverted, normalized, dropped) ==
    LET Shown(d, pg) ==
            [clean |-> file, cache |-> d, df |-> AddSeverity(d), err |-> pg.err, ss |-> pg.st,
             f |-> pg.f, view |-> pg.view,
             run |-> [reverted |-> reverted, normalized |-> normalized, dropped |-> dropped,
                      hit |-> cached.loaded]]
        Loaded(d) == Shown(d, Page(d, st))
    IN  Loaded(IF cached.loaded THEN cached ELSE LoadData(file))

(* The outcomes of one run of the script in session state st: lines        *)
(* 249-253, then the page.                                                 *)
Script(st, reverted) ==
    LET cold == ~clean.exists
        Started(o) ==
            IF o.err # NoError
            THEN {[clean |-> clean, cache |-> cache, df |-> NoFrame, err |-> o.err, ss |-> st,
                   f |-> NoFrame, view |-> NoView,
                   run |-> [reverted |-> reverted, normalized |-> TRUE, dropped |-> FALSE,
                            hit |-> FALSE]]}
            ELSE {Render(file, IF cold THEN ClearCache(cache) ELSE cache, st, reverted, cold,
                         cold /\ cache.loaded)
                  : file \in o.files}
    IN  Started(IF cold THEN AutoCleanOutcome(raw) ELSE [err |-> NoError, files |-> {clean}])

RunScript(st, reverted) ==
    \E r \in Script(st, reverted) :
        /\ clean' = r.clean /\ cache' = r.cache /\ df' = r.df /\ err' = r.err
        /\ ss' = r.ss /\ f' = r.f /\ view' = r.view /\ run' = r.run
        /\ op' = "run"
        /\ UNCHANGED raw

Init ==
    /\ raw \in PageRawFiles
    /\ clean = NoFile
    /\ cache = NoFrame
    /\ df = NoFrame
    /\ err = NoError
    /\ op = "start"
    /\ ss = InitSession /\ f = NoFrame /\ view = NoView /\ run = NoRun

(* A browser opens the page: a new session.                                *)
Open == RunScript(InitSession, FALSE)

(* The page is rerun in the same session.                                  *)
Rerun == op # "start" /\ RunScript(ss, FALSE)

(* A severity checkbox is clicked: the widget value flips, on_change runs, *)
(* the script reruns.                                                      *)
ToggleSeverity ==
    /\ view.widgets = "all"
    /\ \E o \in {"Minor", "Moderate", "Severe"} :
          LET clicked == [ss EXCEPT ![o] = ~ss[o]]
          IN  RunScript(EnforceOne(clicked, o), EnforceOne(clicked, o) # clicked)

SetMagnitude ==
    /\ view.widgets # "none"
    /\ \E m \in Magnitudes \ {ss.magnitude} : RunScript([ss EXCEPT !.magnitude = m], FALSE)

SetYearRange ==
    /\ view.widgets = "all"
    /\ \E lo \in {ss.year_args[1], 1900}, hi \in {1906, ss.year_args[2]} :
          /\ ss.year_args[1] <= lo /\ lo <= hi /\ hi <= ss.year_args[2]
          /\ <<lo, hi>> # ss.year_range
          /\ RunScript([ss EXCEPT !.year_range = <<lo, hi>>], FALSE)

SetEventType ==
    /\ view.widgets = "all"
    /\ \E i \in 1..Len(EventTypes(ss.type_args)) :
          /\ EventTypes(ss.type_args)[i] # ss.event_type
          /\ RunScript([ss EXCEPT !.event_type = EventTypes(ss.type_args)[i]], FALSE)

ToggleCasualties ==
    /\ view.widgets = "all"
    /\ RunScript([ss EXCEPT !.only_with_casualties = ~ss.only_with_casualties], FALSE)

SetMetric ==
    /\ view.widgets = "all"
    /\ \E m \in Metrics \ {ss.metric} : RunScript([ss EXCEPT !.metric = m], FALSE)

(* The canonical file is removed: the next run is a cold start.            *)
DeleteClean ==
    /\ clean.exists
    /\ clean' = NoFile
    /\ op' = "unlink"
    /\ UNCHANGED <<raw, cache, df, err, ss, f, view, run>>

(* The raw source is replaced on disk.                                     *)
ReplaceRaw ==
    /\ raw' \in PageRawFiles \ {raw}
    /\ op' = "replace"
    /\ UNCHANGED <<clean, cache, df, err, ss, f, view, run>>

(* A user's sessions on the page, the files left alone.                    *)
Next ==
    \/ Open \/ Rerun \/ ToggleSeverity \/ SetMagnitude \/ SetYearRange \/ SetEventType
    \/ ToggleCasualties \/ SetMetric

Spec == Init /\ [][Next]_vars

(* Page runs while the files change: cold starts and stale sources.        *)
NextCold == Open \/ Rerun \/ SetMagnitude \/ ToggleCasualties \/ DeleteClean \/ ReplaceRaw

SpecCold == Init /\ [][NextCold]_vars

-----------------------------------------------------------------------------
(* Properties of the normalizer and the loader.                            *)

CleanCell(file, k, c) == Cell(file.cols, file.rows[k], c)

(* C5: total_casualties = deaths + injuries in every row of the canonical  *)
(* file the normalizer wrote and in every row of the dataset load_data     *)
(* returns from it.                                                        *)
C5_TotalIsSum ==
    /\ clean.exists =>
         \A k \in 1..Len(clean.rows) :
            LET d == ToNumeric(CleanCell(clean, k, "deaths"))
                i == ToNumeric(CleanCell(clean, k, "injuries"))
                t == ToNumeric(CleanCell(clean, k, "total_casualties"))
            IN  ~d.nan /\ ~i.nan /\ ~t.nan /\ t.v = d.v + i.v
    /\ df.loaded =>
         \A k \in 1..Len(df.rows) :
            /\ ~df.rows[k].deaths.nan /\ ~df.rows[k].injuries.nan
            /\ ~df.rows[k].total_casualties.nan
            /\ df.rows[k].total_casualties.v = df.rows[k].deaths.v + df.rows[k].injuries.v

C5_Witness ==
    /\ clean.exists /\ df.loaded
    /\ \E k \in 1..Len(df.rows) : df.rows[k].deaths.v > 0 /\ df.rows[k].injuries.v > 0

(* C6 as claimed: with a tsunami column in the source, every tsunami_flag  *)
(* written is 0 or 1 (1 exactly for the truthy tokens, 0 for every other   *)
(* value).  The code writes the number itself for a numeric token that is  *)
(* not listed, such as 2.                                                  *)
C6_FlagIsZeroOrOne ==
    (clean.exists /\ HasCol(clean.cols, "tsunami_flag")) =>
        \A k \in 1..Len(clean.rows) : CleanCell(clean, k, "tsunami_flag") \in {"0", "1"}

(* The last operation was the normalizer, and it wrote the canonical file  *)
(* from raw.                                                               *)
Wrote == op = "auto_clean_raw_to_csv" /\ err = NoError

(* Raw row k (its Id is k) is a row of the canonical file.                 *)
Present(k, file) ==
    \E j \in 1..Len(file.rows) : CleanCell(file, j, "event_id") = NatToStr(k)

(* The numeric reading of column c (canonical name) of a raw row.          *)
RawNum(canon, row, c) == ToNumeric(Cell(canon, row, c))

FieldsNumeric(canon, row) ==
    \A c \in {"magnitude", "latitude", "longitude", "depth_km", "year"} : ~RawNum(canon, row, c).nan

(* year, month and day (month and day 1 when missing) make a date.         *)
DateBuilt(canon, row) ==
    /\ ~RawNum(canon, row, "year").nan /\ RawNum(canon, row, "year").v % 100 = 0
    /\ ValidYMD(RawNum(canon, row, "year").v \div 100,
                AsInt(FillNa(RawNum(canon, row, "month"), 1)),
                AsInt(FillNa(RawNum(canon, row, "day"), 1)))

C8_Failures ==
    [][op' = "auto_clean_raw_to_csv" =>
         /\ ~raw.exists => err'.type = "FileNotFoundError"
         /\ LET absent == {c \in {Required[i] : i \in 1..Len(Required)} :
                              ~HasCol(CanonCols(raw.cols), c)}
            IN  (raw.exists /\ absent # {}) =>
                    /\ err'.type = "ValueError"
                    /\ {err'.missing[i] : i \in 1..Len(err'.missing)} = absent
                    /\ Len(err'.missing) = Cardinality(absent)
         /\ err'.type \in {"FileNotFoundError", "ValueError"} => clean' = clean]_vars

C8_Witness ==
    /\ op = "auto_clean_raw_to_csv" /\ clean.exists /\ raw.exists
    /\ err.type = "ValueError" /\ Len(err.missing) >= 2 /\ Len(err.missing) < Len(Required)

-----------------------------------------------------------------------------
(* Properties of the page.                                                 *)

(* C4: after the severity column is added, every loaded event carries the  *)
(* class of its own total_casualties: Severe from 1000, Moderate from 100  *)
(* to 999, Minor otherwise.                                                *)
C4_SeverityByThreshold ==
    op = "classify_severity" =>
        \A k \in 1..Len(df.rows) :
            LET t == df.rows[k].total_casualties
            IN  df.rows[k].severity =
                    IF ~t.nan /\ t.v >= 100000 THEN "Severe"
                    ELSE IF ~t.nan /\ t.v >= 10000 /\ t.v <= 99900 THEN "Moderate"
                    ELSE "Minor"

C4_Witness ==
    /\ op = "classify_severity"
    /\ \E k \in 1..Len(df.rows) :
          df.rows[k].total_casualties.v = 100000 /\ df.rows[k].severity = "Severe"
    /\ \E k \in 1..Len(df.rows) :
          df.rows[k].total_casualties.v = 10000 /\ df.rows[k].severity = "Moderate"

(* C1: in every session state, and in every filter the page applies, at    *)
(* least one severity class is selected.                                   *)
C1_SeverityNeverEmpty ==
    /\ Checked(ss) # {}
    /\ view.widgets = "all" => view.severity_filter # <<>>

C1_Witness ==
    /\ run.reverted /\ view.widgets = "all"
    /\ Len(view.severity_filter) = 1

(* C2 as claimed: when the filter matches no row the page raises nothing   *)
(* and shows an event count of 0, sums of 0 and the placeholder as the     *)
(* peak event.  The code counts the placeholder: the event count is 1.     *)
C2_PlaceholderAggregates ==
    view.placeholder =>
        /\ err = NoError
        /\ view.count = 0
        /\ view.total_casualties = 0 /\ view.deaths = 0 /\ view.injuries = 0
        /\ view.peak = f.rows[1]

(* The filter specification of the last page run, read off the session,    *)
(* applied to one event of the dataset.                                    *)
Matches(r) ==
    /\ ss.year_range[1] <= r.year /\ r.year <= ss.year_range[2]
    /\ ~r.magnitude.nan
    /\ r.magnitude.v - ss.magnitude <= 25 /\ ss.magnitude - r.magnitude.v <= 25
    /\ r.severity \in Checked(ss)
    /\ ss.only_with_casualties => (~r.total_casualties.nan /\ r.total_casualties.v > 0)
    /\ HasCol(df.cols, "tsunami_flag") =>
          /\ ss.event_type = "Earthquake only" => r.tsunami_flag = 0
          /\ ss.event_type = "Earthquake + Tsunami" => r.tsunami_flag = 1

(* C3: the filtered subset is exactly the events of the dataset that       *)
(* satisfy every bound of the filter specification (year range, magnitude  *)
(* within 0.25 of the target, severity class, casualties, tsunami          *)
(* category); when none does, the placeholder is substituted.              *)
C3_FilterExact ==
    view.widgets = "all" =>
        /\ ~view.placeholder => f.rows = SelectSeq(df.rows, Matches)
        /\ view.placeholder <=> SelectSeq(df.rows, Matches) = <<>>

C3_Witness ==
    /\ view.widgets = "all" /\ ~view.placeholder
    /\ ss.event_type = "Earthquake only"
    /\ Len(f.rows) >= 2 /\ Len(f.rows) < Len(df.rows)
    /\ \E k \in 1..Len(f.rows) : f.rows[k].magnitude.v - ss.magnitude = 25
    /\ \E k \in 1..Len(df.rows) : ss.magnitude - df.rows[k].magnitude.v = 25

(* C10: for a non-empty filtered subset, the peak event is the first       *)
(* record of the subset, in its order, whose metric value is the maximum   *)
(* over the subset.                                                        *)
C10_PeakIsFirstMaximum ==
    (view.widgets = "all" /\ ~view.placeholder) =>
        \E k \in 1..Len(f.rows) :
            /\ view.peak = f.rows[k]
            /\ \A j \in 1..Len(f.rows) : f.rows[j][ss.metric].v <= f.rows[k][ss.metric].v
            /\ \A j \in 1..(k - 1) : f.rows[j][ss.metric].v < f.rows[k][ss.metric].v

C10_Witness ==
    /\ view.widgets = "all" /\ ~view.placeholder
    /\ \E k \in 1..Len(f.rows) :
          /\ view.peak = f.rows[k]
          /\ \E j \in (k + 1)..Len(f.rows) : f.rows[j][ss.metric].v = f.rows[k][ss.metric].v
          /\ \E j \in 1..(k - 1) : f.rows[j][ss.metric].v < f.rows[k][ss.metric].v

(* C9: a page run invokes the normalizer only if the canonical file was    *)
(* absent when the run started, and a run that invoked it loads the        *)
(* dataset from the file it wrote, never from the cache.                   *)
C9_ColdStart ==
    [][op' = "run" =>
         /\ run'.normalized => ~clean.exists
         /\ run'.normalized => ~run'.hit
         /\ (run'.normalized /\ clean'.exists) =>
               /\ cache' = LoadData(clean')
               /\ df' = AddSeverity(LoadData(clean'))]_vars

C9_Witness ==
    /\ op = "run" /\ run.normalized /\ run.dropped
    /\ df.loaded /\ df.rows # <<>>

(* C11: in a run where the filter matches no row the export is not        *)
(* offered, and an export that is offered holds exactly the filtered rows, *)
(* each of them an event of the loaded canonical dataset: the placeholder  *)
(* record is never exported.                                               *)
C11_PlaceholderNotExported ==
    view.widgets = "all" =>
        /\ view.placeholder => (~view.export /\ view.exported = <<>>)
        /\ view.export =>
              /\ view.exported = f.rows
              /\ \A k \in 1..Len(view.exported) :
                    /\ \E j \in 1..Len(df.rows) : df.rows[j] = view.exported[k]
                    /\ view.exported[k].location_name # "No data"

C11_Witness ==
    /\ view.widgets = "all" /\ view.placeholder /\ df.rows # <<>>
    /\ f.rows = <<PlaceholderRow(ss, ss.year_range)>>
    /\ ~view.export

====
